---- MODULE Spec2Model ----
(***************************************************************************)
(* Identity resolution and merge safety of the books dataset:              *)
(*   utils/csv_utils.py       is_manually_set, union_pipe, safe_merge      *)
(*   utils/normalization.py   normalize_*, compute_canonical_id            *)
(*   utils/deduplication.py   find_matches and the similarity scores       *)
(*   utils/work_id.py         generate_work_id                             *)
(*   scripts/merge_and_dedupe.py  normalize_row, merge_books               *)
(*                                                                         *)
(* A Python str is a sequence of one-character strings, None is the value  *)
(* None below, a dict is a function whose DOMAIN is its key set.           *)
(* Confidences are integers in hundredths (1.0 is 100).                    *)
(***************************************************************************)
EXTENDS Integers, Sequences, FiniteSets, TLC

VARIABLES
    sm_pc,            \* position of the safe_merge call: "idle", "call", "done"
    sm_existing,      \* argument `existing` of safe_merge
    sm_new,           \* argument `new` of safe_merge
    sm_merged,        \* value returned by safe_merge
    mb_pc,            \* position of merge_books: "idle", "loop", "raised", "done"
    existing_books,   \* argument `existing_books` of merge_books
    new_books,        \* argument `new_books` of merge_books
    merged,           \* local list `merged` of merge_books
    possible_duplicates, \* local list `possible_duplicates` of merge_books
    mb_i,             \* number of new records whose loop body has completed
    mb_dest,          \* what each completed loop body did with its record
    uuid_next,        \* number of uuid4 tokens drawn so far
    mb_run,           \* which run of merge_books this is: 1, 2 (0: none)
    fn_pc,            \* position of a function called on its own: "idle", "call", "raised", "done"
    fn_args,          \* the arguments of that function
    fn_ret            \* the values its calls returned, in call order

vars == <<sm_pc, sm_existing, sm_new, sm_merged, mb_pc, existing_books,
          new_books, merged, possible_duplicates, mb_i, mb_dest, uuid_next,
          mb_run, fn_pc, fn_args, fn_ret>>

sm_vars == <<sm_pc, sm_existing, sm_new, sm_merged>>
mb_vars == <<mb_pc, existing_books, new_books, merged, possible_duplicates, mb_i,
             mb_dest, mb_run>>
fn_vars == <<fn_pc, fn_args, fn_ret>>

----------------------------------------------------------------------------
(* Bounds of the model *)

MaxTokens == 2
MaxExisting == 1
MaxBatch == 2

----------------------------------------------------------------------------
(* Python values *)

None == <<"None">>
Absent == <<"Absent">>
EmptyDict == [k \in {} |-> None]

Truthy(v) == v /= None /\ v /= <<>>

Get(d, k) == IF k \in DOMAIN d THEN d[k] ELSE None
GetD(d, k, dflt) == IF k \in DOMAIN d THEN d[k] ELSE dflt
Put(d, k, v) == [x \in DOMAIN d \cup {k} |-> IF x = k THEN v ELSE d[x]]

----------------------------------------------------------------------------
(* Python str operations, character by character *)

UpperCase == <<"A","B","C","D","E","F","G","H","I","J","K","L","M",
               "N","O","P","Q","R","S","T","U","V","W","X","Y","Z">>
LowerCase == <<"a","b","c","d","e","f","g","h","i","j","k","l","m",
               "n","o","p","q","r","s","t","u","v","w","x","y","z">>
Digits == <<"0","1","2","3","4","5","6","7","8","9">>

\* the characters of the model in code point order
CodePoints == <<"\t", " ", ",", "-", ".">> \o Digits \o <<":">> \o UpperCase
              \o <<"_">> \o LowerCase \o <<"|">>

Ord(c) == CHOOSE i \in 1..Len(CodePoints) : CodePoints[i] = c

IsSpace(c) == c \in {" ", "\t"}
IsDigit(c) == \E i \in 1..10 : Digits[i] = c
IsUpper(c) == \E i \in 1..26 : UpperCase[i] = c
IsLower(c) == \E i \in 1..26 : LowerCase[i] = c
IsAlpha(c) == IsUpper(c) \/ IsLower(c)
IsWordChar(c) == IsAlpha(c) \/ IsDigit(c) \/ c = "_"

LowerChar(c) == IF IsUpper(c) THEN LowerCase[CHOOSE i \in 1..26 : UpperCase[i] = c] ELSE c
UpperChar(c) == IF IsLower(c) THEN UpperCase[CHOOSE i \in 1..26 : LowerCase[i] = c] ELSE c

Lower(s) == [i \in 1..Len(s) |-> LowerChar(s[i])]
Upper(s) == [i \in 1..Len(s) |-> UpperChar(s[i])]

RECURSIVE LStrip(_)
LStrip(s) == IF s /= <<>> /\ IsSpace(Head(s)) THEN LStrip(Tail(s)) ELSE s

RECURSIVE RStrip(_)
RStrip(s) == IF s /= <<>> /\ IsSpace(s[Len(s)]) THEN RStrip(SubSeq(s, 1, Len(s) - 1)) ELSE s

Strip(s) == RStrip(LStrip(s))

\* s.split(sep) for a one-character separator
RECURSIVE Split(_, _)
Split(s, sep) ==
    IF \E i \in 1..Len(s) : s[i] = sep
    THEN LET i == CHOOSE j \in 1..Len(s) : s[j] = sep /\ \A k \in 1..(j - 1) : s[k] /= sep
         IN  <<SubSeq(s, 1, i - 1)>> \o Split(SubSeq(s, i + 1, Len(s)), sep)
    ELSE <<s>>

\* sep.join(parts)
RECURSIVE Join(_, _)
Join(parts, sep) ==
    IF parts = <<>> THEN <<>>
    ELSE IF Len(parts) = 1 THEN parts[1]
    ELSE parts[1] \o sep \o Join(Tail(parts), sep)

\* a < b on str: code point order, a proper prefix first
RECURSIVE StrLess(_, _)
StrLess(a, b) ==
    IF b = <<>> THEN FALSE
    ELSE IF a = <<>> THEN TRUE
    ELSE IF Head(a) = Head(b) THEN StrLess(Tail(a), Tail(b))
    ELSE Ord(Head(a)) < Ord(Head(b))

\* sorted(S) for a set of str
RECURSIVE Sorted(_)
Sorted(S) ==
    IF S = {} THEN <<>>
    ELSE LET m == CHOOSE x \in S : \A y \in S : ~StrLess(y, x)
         IN  <<m>> \o Sorted(S \ {m})

\* sub in s
Contains(sub, s) ==
    \E i \in 1..(Len(s) - Len(sub) + 1) : SubSeq(s, i, i + Len(sub) - 1) = sub

StartsWith(s, p) == Len(s) >= Len(p) /\ SubSeq(s, 1, Len(p)) = p

Range(s) == {s[i] : i \in 1..Len(s)}

----------------------------------------------------------------------------
(* utils/csv_utils.py *)

is_manually_set_always(value) == value /= None

is_manually_set(value) == value /= None /\ Strip(value) /= <<>>

\* {v.strip() for v in s.split('|') if v.strip()}
PipeTokens(s) == {Strip(t) : t \in {u \in Range(Split(s, "|")) : Strip(u) /= <<>>}}

union_pipe_new_only(existing, new) ==
    LET new_set == IF Truthy(new) THEN PipeTokens(new) ELSE {}
    IN  IF new_set = {} THEN None ELSE Join(Sorted(new_set), <<"|">>)

union_pipe_appends(existing, new) ==
    LET existing_list == IF Truthy(existing) THEN Sorted(PipeTokens(existing)) ELSE <<>>
        new_list == IF Truthy(new) THEN Sorted(PipeTokens(new)) ELSE <<>>
    IN  IF existing_list \o new_list = <<>> THEN None
        ELSE Join(existing_list \o new_list, <<"|">>)

union_pipe_existing_first(existing, new) ==
    LET existing_set == IF Truthy(existing) THEN PipeTokens(existing) ELSE {}
        new_set == IF Truthy(new) THEN PipeTokens(new) ELSE {}
        combined == Sorted(existing_set) \o Sorted(new_set \ existing_set)
    IN  IF combined = <<>> THEN None ELSE Join(combined, <<"|">>)

union_pipe(existing, new) ==
    LET existing_set == IF Truthy(existing) THEN PipeTokens(existing) ELSE {}
        new_set == IF Truthy(new) THEN PipeTokens(new) ELSE {}
        combined == existing_set \cup new_set
    IN  IF combined = {} THEN None ELSE Join(Sorted(combined), <<"|">>)

PROTECTED_FIELDS ==
    {"work_id", "rating", "reread", "reread_count", "dnf", "dnf_reason",
     "pacing_rating", "tone", "vibe", "what_i_wanted", "did_it_deliver",
     "favorite_elements", "pet_peeves", "notes", "anchor_type",
     "read_status", "would_recommend"}

MULTI_VALUED_FIELDS == {"formats", "sources", "tags"}

\* the body of safe_merge's loop for a key present on both sides
merge_value_newest_wins(key, existing_value, new_value) ==
    IF key \in MULTI_VALUED_FIELDS THEN union_pipe(existing_value, new_value)
    ELSE IF is_manually_set(new_value) THEN new_value ELSE existing_value

merge_value_safe_overwritten(key, existing_value, new_value) ==
    IF key \in PROTECTED_FIELDS
    THEN IF ~is_manually_set(existing_value) /\ is_manually_set(new_value)
         THEN new_value ELSE existing_value
    ELSE IF key \in MULTI_VALUED_FIELDS
    THEN union_pipe(existing_value, new_value)
    ELSE IF is_manually_set(new_value) THEN new_value ELSE existing_value

merge_value(key, existing_value, new_value) ==
    IF key \in PROTECTED_FIELDS
    THEN IF ~is_manually_set(existing_value) /\ is_manually_set(new_value)
         THEN new_value ELSE existing_value
    ELSE IF key \in MULTI_VALUED_FIELDS
    THEN union_pipe(existing_value, new_value)
    ELSE IF ~is_manually_set(existing_value) /\ is_manually_set(new_value)
         THEN new_value ELSE existing_value

\* the work_id step of safe_merge: the copy of existing, with new's work_id
\* adopted when existing's is falsy and new's is truthy
merge_work_id_from_new(existing, new) ==
    IF Truthy(Get(new, "work_id"))
    THEN Put(existing, "work_id", Get(new, "work_id")) ELSE existing

merge_work_id(existing, new) ==
    IF Truthy(Get(existing, "work_id")) THEN existing
    ELSE IF Truthy(Get(new, "work_id"))
    THEN Put(existing, "work_id", Get(new, "work_id")) ELSE existing

safe_merge(existing, new) ==
    LET m0 == merge_work_id(existing, new)
    IN  [key \in DOMAIN m0 \cup (DOMAIN new \ {"work_id"}) |->
            IF key = "work_id" \/ key \notin DOMAIN new THEN m0[key]
            ELSE IF key \notin DOMAIN m0 THEN new[key]
            ELSE merge_value(key, m0[key], new[key])]

----------------------------------------------------------------------------
(* utils/normalization.py *)

\* re.sub(r'[^\w\s]', '', s)
RemovePunctuation(s) == SelectSeq(s, LAMBDA c : IsWordChar(c) \/ IsSpace(c))

\* s.split(): the maximal runs of non-whitespace characters
RECURSIVE Words(_)
Words(s) ==
    LET t == LStrip(s)
    IN  IF t = <<>> THEN <<>>
        ELSE IF \E i \in 1..Len(t) : IsSpace(t[i])
        THEN LET i == CHOOSE j \in 1..Len(t) :
                        IsSpace(t[j]) /\ \A k \in 1..(j - 1) : ~IsSpace(t[k])
             IN  <<SubSeq(t, 1, i - 1)>> \o Words(SubSeq(t, i + 1, Len(t)))
        ELSE <<t>>

\* re.sub(r'\s+', ' ', s).strip()
CollapseWhitespace(s) == Join(Words(s), <<" ">>)

\* str.title(): a letter is upper-cased unless the character before it is a letter
Title(s) ==
    [i \in 1..Len(s) |->
        IF IsAlpha(s[i])
        THEN IF i > 1 /\ IsAlpha(s[i - 1]) THEN LowerChar(s[i]) ELSE UpperChar(s[i])
        ELSE s[i]]

\* one pass of the prefix loop of normalize_title
StripPrefix(s, prefix) ==
    IF StartsWith(s, prefix) THEN Strip(SubSeq(s, Len(prefix) + 1, Len(s))) ELSE s

normalize_title(title) ==
    IF ~Truthy(title) THEN <<>>
    ELSE LET lowered == Strip(Lower(title))
             cleaned == CollapseWhitespace(RemovePunctuation(lowered))
             p1 == StripPrefix(cleaned, <<"t","h","e"," ">>)
             p2 == StripPrefix(p1, <<"a"," ">>)
         IN  StripPrefix(p2, <<"a","n"," ">>)

\* s.split(',', 1) with both parts stripped; s contains a comma
SplitFirstComma(s) ==
    LET i == CHOOSE j \in 1..Len(s) : s[j] = "," /\ \A k \in 1..(j - 1) : s[k] /= ","
    IN  <<Strip(SubSeq(s, 1, i - 1)), Strip(SubSeq(s, i + 1, Len(s)))>>

normalize_author(author) ==
    IF ~Truthy(author) THEN <<>>
    ELSE LET a == CollapseWhitespace(author)
             parts == Words(a)
         IN  IF "," \in Range(a)
             THEN LET p == SplitFirstComma(a)
                  IN  Title(p[1]) \o <<",", " ">> \o Title(p[2])
             ELSE IF Len(parts) >= 2
             THEN Title(parts[Len(parts)]) \o <<",", " ">>
                  \o Title(Join(SubSeq(parts, 1, Len(parts) - 1), <<" ">>))
             ELSE Title(a)

\* re.sub(r'[-\s]', '', s)
RemoveHyphensAndSpaces(s) == SelectSeq(s, LAMBDA c : c /= "-" /\ ~IsSpace(c))

IsDigits(s) == s /= <<>> /\ \A i \in 1..Len(s) : IsDigit(s[i])

normalize_isbn13(isbn) ==
    IF ~Truthy(isbn) THEN None
    ELSE LET cleaned == RemoveHyphensAndSpaces(isbn)
         IN  IF Len(cleaned) = 13 /\ IsDigits(cleaned) THEN cleaned ELSE None

normalize_asin(asin) ==
    IF ~Truthy(asin) THEN None
    ELSE LET cleaned == Upper(Strip(asin))
         IN  IF Len(cleaned) = 10 THEN cleaned ELSE None

\* hashlib.md5(s).hexdigest()[:12] and hashlib.sha256(s).hexdigest()[:16]:
\* a digest is determined by its input and by nothing else, and digests of
\* different inputs are taken to differ (no collision within the model)
Md5Hex12(s) == <<"md5">> \o s
Sha256Hex16(s) == <<"sha256">> \o s

PrefixIsbn13 == <<"i","s","b","n","1","3",":">>
PrefixAsin == <<"a","s","i","n",":">>
PrefixHash == <<"h","a","s","h",":">>
PrefixUuid == <<"u","u","i","d",":">>

compute_canonical_id_asin_first(row) ==
    LET isbn13 == normalize_isbn13(GetD(row, "isbn13", <<>>))
        asin == normalize_asin(GetD(row, "asin", <<>>))
    IN  IF Truthy(asin) THEN PrefixAsin \o asin
        ELSE IF Truthy(isbn13) THEN PrefixIsbn13 \o isbn13
        ELSE PrefixHash \o Md5Hex12(normalize_title(GetD(row, "title", <<>>)) \o <<"|">>
                                    \o normalize_author(GetD(row, "author", <<>>)))

compute_canonical_id(row) ==
    LET isbn13 == normalize_isbn13(GetD(row, "isbn13", <<>>))
        asin == normalize_asin(GetD(row, "asin", <<>>))
    IN  IF Truthy(isbn13) THEN PrefixIsbn13 \o isbn13
        ELSE IF Truthy(asin) THEN PrefixAsin \o asin
        ELSE PrefixHash \o Md5Hex12(normalize_title(GetD(row, "title", <<>>)) \o <<"|">>
                                    \o normalize_author(GetD(row, "author", <<>>)))

----------------------------------------------------------------------------
(* utils/deduplication.py *)

MinInt(a, b) == IF a <= b THEN a ELSE b

\* a similarity is a fraction <<numerator, denominator>>
compute_title_similarity(title1, title2) ==
    LET norm_title1 == normalize_title(title1)
        norm_title2 == normalize_title(title2)
        words1 == Range(Words(norm_title1))
        words2 == Range(Words(norm_title2))
        intersection == Cardinality(words1 \cap words2)
        union == Cardinality(words1 \cup words2)
    IN  IF norm_title1 = <<>> \/ norm_title2 = <<>> THEN <<0, 1>>
        ELSE IF norm_title1 = norm_title2 THEN <<1, 1>>
        ELSE IF words1 = {} \/ words2 = {} THEN <<0, 1>>
        ELSE IF union = 0 THEN <<0, 1>>
        ELSE IF 10 * intersection >= 8 * MinInt(Cardinality(words1), Cardinality(words2))
        THEN <<MinInt(10 * union, 11 * intersection), 10 * union>>
        ELSE <<intersection, union>>

\* parse_author inside compute_author_similarity: <<last, first>>
parse_author(auth) ==
    IF "," \in Range(auth) THEN SplitFirstComma(auth)
    ELSE LET parts == Words(auth)
         IN  IF Len(parts) >= 2
             THEN <<parts[Len(parts)], Join(SubSeq(parts, 1, Len(parts) - 1), <<" ">>)>>
             ELSE <<IF parts /= <<>> THEN parts[1] ELSE <<>>, <<>>>>

\* in hundredths
compute_author_similarity(author1, author2) ==
    LET norm_author1 == normalize_author(author1)
        norm_author2 == normalize_author(author2)
        p1 == parse_author(norm_author1)
        p2 == parse_author(norm_author2)
        last1 == p1[1]
        first1 == p1[2]
        last2 == p2[1]
        first2 == p2[2]
    IN  IF norm_author1 = <<>> \/ norm_author2 = <<>> THEN 0
        ELSE IF norm_author1 = norm_author2 THEN 100
        ELSE IF last1 /= <<>> /\ last2 /= <<>> /\ last1 = last2
        THEN IF first1 /= <<>> /\ first2 /= <<>>
             THEN IF first1 = first2 THEN 100
                  ELSE IF first1[1] = first2[1] \/ Contains(first1, first2)
                          \/ Contains(first2, first1) THEN 95
                  ELSE 85
             ELSE 90
        ELSE 0

\* the surname of the partial rule: the part before the first comma, '' without one
SurnameBeforeComma(author) ==
    IF "," \in Range(author) THEN Strip(Split(author, ",")[1]) ELSE <<>>

\* lines 23-27 and 33-37 of find_matches: what it derives from one row
normalized_fields(row) ==
    [canonical_id |-> compute_canonical_id(row),
     title |-> normalize_title(GetD(row, "title", <<>>)),
     author |-> normalize_author(GetD(row, "author", <<>>)),
     isbn13 |-> normalize_isbn13(GetD(row, "isbn13", <<>>)),
     asin |-> normalize_asin(GetD(row, "asin", <<>>))]

\* lines 86-90: the bounded fuzzy rule on a title similarity (a fraction) and
\* an author similarity (hundredths); the confidence in hundredths, 0 for none.
\* combined = 0.6 * title + 0.4 * author = cn / cd, capped by min(0.85, combined)
fuzzy_confidence_uncapped(title_similarity, author_similarity) ==
    IF /\ 100 * title_similarity[1] >= 92 * title_similarity[2]
       /\ author_similarity >= 92
       /\ 100 * (600 * title_similarity[1] + 4 * author_similarity * title_similarity[2])
            >= 92 * (1000 * title_similarity[2])
    THEN (100 * (600 * title_similarity[1] + 4 * author_similarity * title_similarity[2]))
            \div (1000 * title_similarity[2])
    ELSE 0

fuzzy_confidence(title_similarity, author_similarity) ==
    IF /\ 100 * title_similarity[1] >= 92 * title_similarity[2]
       /\ author_similarity >= 92
       /\ 100 * (600 * title_similarity[1] + 4 * author_similarity * title_similarity[2])
            >= 92 * (1000 * title_similarity[2])
    THEN IF 100 * (600 * title_similarity[1] + 4 * author_similarity * title_similarity[2])
                >= 85 * (1000 * title_similarity[2])
         THEN 85
         ELSE (100 * (600 * title_similarity[1] + 4 * author_similarity * title_similarity[2]))
                \div (1000 * title_similarity[2])
    ELSE 0

\* lines 72-74: both authors have a part before a comma and the parts are equal
same_last_name(new_author, existing_author) ==
    /\ SurnameBeforeComma(new_author) /= <<>>
    /\ SurnameBeforeComma(new_author) = SurnameBeforeComma(existing_author)

\* lines 39-92: the confidence one candidate gets, 0 when it is not appended;
\* new and existing are the normalized fields of the two rows
candidate_confidence_no_canonical_rule(new, existing) ==
    IF Truthy(new.isbn13) /\ Truthy(existing.isbn13) /\ new.isbn13 = existing.isbn13
    THEN 95
    ELSE IF Truthy(new.asin) /\ Truthy(existing.asin) /\ new.asin = existing.asin
    THEN 90
    ELSE IF new.title = <<>> \/ new.author = <<>>
            \/ existing.title = <<>> \/ existing.author = <<>>
    THEN 0
    ELSE IF new.title = existing.title /\ new.author = existing.author THEN 85
    ELSE IF /\ Truthy(new.isbn13) \/ Truthy(new.asin)
            /\ new.title = existing.title
            /\ same_last_name(new.author, existing.author)
    THEN 70
    ELSE IF ~(Truthy(new.isbn13) \/ Truthy(new.asin))
    THEN fuzzy_confidence(compute_title_similarity(new.title, existing.title),
                          compute_author_similarity(new.author, existing.author))
    ELSE 0

candidate_confidence_fuzzy_always(new, existing) ==
    IF new.canonical_id /= <<>> /\ new.canonical_id = existing.canonical_id THEN 100
    ELSE IF Truthy(new.isbn13) /\ Truthy(existing.isbn13) /\ new.isbn13 = existing.isbn13
    THEN 95
    ELSE IF Truthy(new.asin) /\ Truthy(existing.asin) /\ new.asin = existing.asin
    THEN 90
    ELSE IF new.title = <<>> \/ new.author = <<>>
            \/ existing.title = <<>> \/ existing.author = <<>>
    THEN 0
    ELSE IF new.title = existing.title /\ new.author = existing.author THEN 85
    ELSE IF /\ Truthy(new.isbn13) \/ Truthy(new.asin)
            /\ new.title = existing.title
            /\ same_last_name(new.author, existing.author)
    THEN 70
    ELSE fuzzy_confidence(compute_title_similarity(new.title, existing.title),
                          compute_author_similarity(new.author, existing.author))

candidate_confidence(new, existing) ==
    IF new.canonical_id /= <<>> /\ new.canonical_id = existing.canonical_id THEN 100
    ELSE IF Truthy(new.isbn13) /\ Truthy(existing.isbn13) /\ new.isbn13 = existing.isbn13
    THEN 95
    ELSE IF Truthy(new.asin) /\ Truthy(existing.asin) /\ new.asin = existing.asin
    THEN 90
    ELSE IF new.title = <<>> \/ new.author = <<>>
            \/ existing.title = <<>> \/ existing.author = <<>>
    THEN 0
    ELSE IF new.title = existing.title /\ new.author = existing.author THEN 85
    ELSE IF /\ Truthy(new.isbn13) \/ Truthy(new.asin)
            /\ new.title = existing.title
            /\ same_last_name(new.author, existing.author)
    THEN 70
    ELSE IF ~(Truthy(new.isbn13) \/ Truthy(new.asin))
    THEN fuzzy_confidence(compute_title_similarity(new.title, existing.title),
                          compute_author_similarity(new.author, existing.author))
    ELSE 0

\* a sort that puts the later of two equal confidences first
RECURSIVE SortByConfidence_unstable(_)
SortByConfidence_unstable(ms) ==
    IF ms = <<>> THEN <<>>
    ELSE LET top == CHOOSE i \in 1..Len(ms) :
                        /\ \A j \in 1..Len(ms) : ms[j][2] <= ms[i][2]
                        /\ \A j \in (i + 1)..Len(ms) : ms[j][2] < ms[i][2]
         IN  <<ms[top]>> \o SortByConfidence_unstable(SubSeq(ms, 1, top - 1)
                                                      \o SubSeq(ms, top + 1, Len(ms)))

\* matches.sort(key=lambda x: x[2], reverse=True): stable, highest confidence first
RECURSIVE SortByConfidence(_)
SortByConfidence(ms) ==
    IF ms = <<>> THEN <<>>
    ELSE LET top == CHOOSE i \in 1..Len(ms) :
                        /\ \A j \in 1..Len(ms) : ms[j][2] <= ms[i][2]
                        /\ \A j \in 1..(i - 1) : ms[j][2] < ms[i][2]
         IN  <<ms[top]>> \o SortByConfidence(SubSeq(ms, 1, top - 1) \o SubSeq(ms, top + 1, Len(ms)))

\* the candidates in row order, before the sort
candidates(new, existing_rows) ==
    SelectSeq([idx \in 1..Len(existing_rows) |->
                    <<idx, candidate_confidence(new, normalized_fields(existing_rows[idx]))>>],
              LAMBDA m : m[2] > 0)

\* the list of <<index, confidence>>; index counts the rows from 1
find_matches_frozen(new_row, existing_rows) ==
    SortByConfidence(candidates(normalized_fields(new_row),
        SubSeq(existing_rows, 1, MinInt(Len(existing_rows), Len(existing_books)))))

find_matches(new_row, existing_rows) ==
    SortByConfidence(candidates(normalized_fields(new_row), existing_rows))

----------------------------------------------------------------------------
(* utils/work_id.py *)

AttributeError == <<"AttributeError">>

\* isbn13.replace('-', '').replace(' ', '')
RemoveHyphenAndBlank(s) == SelectSeq(s, LAMBDA c : c /= "-" /\ c /= " ")

\* uuid.uuid4().hex[:16]: the n-th token drawn, different from every earlier one
Uuid4Hex16(n) == <<"uuid4", Digits[(n % 10) + 1]>>

\* generate_work_id(book) with existing_work_id given; n is the number of uuid4
\* tokens drawn before the call.  The value is AttributeError when the call
\* raises it: book.get(k, '') is None for a key that is present with None.
generate_work_id_bare_identifier(book, existing_work_id, n) ==
    LET work_id == Get(book, "work_id")
        isbn13_raw == GetD(book, "isbn13", <<>>)
        asin_raw == GetD(book, "asin", <<>>)
        title_raw == GetD(book, "title", <<>>)
        author_raw == GetD(book, "author", <<>>)
        isbn_clean == RemoveHyphenAndBlank(Strip(isbn13_raw))
        asin_clean == Strip(Upper(Strip(asin_raw)))
    IN  IF Truthy(existing_work_id) /\ Strip(existing_work_id) /= <<>>
        THEN Strip(existing_work_id)
        ELSE IF Truthy(work_id) /\ Strip(work_id) /= <<>> THEN Strip(work_id)
        ELSE IF isbn13_raw = None THEN AttributeError
        ELSE IF Strip(isbn13_raw) /= <<>> /\ Len(isbn_clean) = 13 /\ IsDigits(isbn_clean)
        THEN isbn_clean
        ELSE IF asin_raw = None THEN AttributeError
        ELSE IF Strip(asin_raw) /= <<>> /\ Len(asin_clean) = 10
        THEN asin_clean
        ELSE IF title_raw = None \/ author_raw = None THEN AttributeError
        ELSE IF Strip(title_raw) /= <<>> /\ Strip(author_raw) /= <<>>
        THEN PrefixHash \o Sha256Hex16(normalize_title(Strip(title_raw)) \o <<"|">>
                                       \o normalize_author(Strip(author_raw)))
        ELSE PrefixUuid \o Uuid4Hex16(n)

generate_work_id(book, existing_work_id, n) ==
    LET work_id == Get(book, "work_id")
        isbn13_raw == GetD(book, "isbn13", <<>>)
        asin_raw == GetD(book, "asin", <<>>)
        title_raw == GetD(book, "title", <<>>)
        author_raw == GetD(book, "author", <<>>)
        isbn_clean == RemoveHyphenAndBlank(Strip(isbn13_raw))
        asin_clean == Strip(Upper(Strip(asin_raw)))
    IN  IF Truthy(existing_work_id) /\ Strip(existing_work_id) /= <<>>
        THEN Strip(existing_work_id)
        ELSE IF Truthy(work_id) /\ Strip(work_id) /= <<>> THEN Strip(work_id)
        ELSE IF isbn13_raw = None THEN AttributeError
        ELSE IF Strip(isbn13_raw) /= <<>> /\ Len(isbn_clean) = 13 /\ IsDigits(isbn_clean)
        THEN PrefixIsbn13 \o isbn_clean
        ELSE IF asin_raw = None THEN AttributeError
        ELSE IF Strip(asin_raw) /= <<>> /\ Len(asin_clean) = 10
        THEN PrefixAsin \o asin_clean
        ELSE IF title_raw = None \/ author_raw = None THEN AttributeError
        ELSE IF Strip(title_raw) /= <<>> /\ Strip(author_raw) /= <<>>
        THEN PrefixHash \o Sha256Hex16(normalize_title(Strip(title_raw)) \o <<"|">>
                                       \o normalize_author(Strip(author_raw)))
        ELSE PrefixUuid \o Uuid4Hex16(n)

----------------------------------------------------------------------------
(* scripts/merge_and_dedupe.py *)

CANONICAL_FIELDS ==
    {"work_id", "isbn13", "asin", "title", "author", "publication_year", "publisher",
     "language", "pages", "genres", "description", "formats", "physical_owned",
     "kindle_owned", "audiobook_owned", "goodreads_id", "goodreads_url",
     "sources", "date_added", "date_read", "date_updated",
     "read_status", "rating", "reread", "reread_count", "dnf", "dnf_reason",
     "pacing_rating", "tone", "vibe", "what_i_wanted", "did_it_deliver",
     "favorite_elements", "pet_peeves", "notes", "anchor_type", "would_recommend"}

\* in hundredths
POSSIBLE_DUPLICATE_THRESHOLD == 80

\* every possible duplicate merged automatically
AUTO_MERGE_THRESHOLD_lowered == POSSIBLE_DUPLICATE_THRESHOLD

AUTO_MERGE_THRESHOLD == 92

StrKindle == <<"k","i","n","d","l","e">>
StrPhysical == <<"p","h","y","s","i","c","a","l">>
StrAudiobook == <<"a","u","d","i","o","b","o","o","k">>

normalize_row(row) ==
    LET n0 == [field \in CANONICAL_FIELDS |-> Get(row, field)]
        n1 == IF ~Truthy(n0["asin"]) /\ Truthy(Get(row, "kindle_asin"))
              THEN [n0 EXCEPT !["asin"] = Get(row, "kindle_asin")] ELSE n0
        formats == Lower(IF Truthy(n1["formats"]) THEN n1["formats"] ELSE <<>>)
    IN  [n1 EXCEPT
            !["kindle_owned"] = IF Contains(StrKindle, formats) THEN <<"1">> ELSE @,
            !["physical_owned"] = IF Contains(StrPhysical, formats) THEN <<"1">> ELSE @,
            !["audiobook_owned"] = IF Contains(StrAudiobook, formats) THEN <<"1">> ELSE @]

\* the guarded assignment before every append:
\*   if not normalized_new.get('work_id'): normalized_new['work_id'] = generate_work_id(...)
\* the work_id of the result is AttributeError when generate_work_id raises
assign_work_id_skipped(normalized_new, n) == normalized_new

assign_work_id(normalized_new, n) ==
    IF Truthy(normalized_new["work_id"]) THEN normalized_new
    ELSE [normalized_new EXCEPT !["work_id"] = generate_work_id(normalized_new, None, n)]

----------------------------------------------------------------------------
(* The arguments of merge_books: rows as read_csv_safe returns them (a cell is
   None or a stripped string) *)

SeqsUpTo(S, n) == UNION {[1..k -> S] : k \in 0..n}

Row(fields) == [f \in CANONICAL_FIELDS |-> Get(fields, f)]

S_ISBN_A == <<"9","7","8","0","0","0","0","0","0","0","0","0","1">>
S_ISBN_A_HYPHEN == <<"9","7","8","-","0","0","0","0","0","0","0","0","0","1">>
S_ISBN_B == <<"9","7","8","0","0","0","0","0","0","0","0","0","2">>
S_ASIN_A == <<"B","0","0","0","0","0","0","0","0","1">>
S_ASIN_A_LOWER == <<"b","0","0","0","0","0","0","0","0","1">>
S_THE_X == <<"T","h","e"," ","X">>
S_X == <<"x">>
S_JO_DO == <<"J","o"," ","D","o">>
S_DO_JO == <<"D","o",","," ","J","o">>
S_DO_J == <<"D","o",","," ","J">>
S_W1 == <<"w","1">>
S_W2 == <<"w","2">>
S_W3 == <<"w","3">>
S_PHYSICAL_KINDLE == <<"p","h","y","s","i","c","a","l","|","k","i","n","d","l","e">>
S_KINDLE_CAP == <<"K","i","n","d","l","e">>

\* rows of books.csv
ExistingRowSamples ==
    { \* a rated book with an ISBN-13 and a user-added tags column
      Put(Row([work_id |-> S_W1, isbn13 |-> S_ISBN_A, title |-> S_THE_X,
               author |-> S_JO_DO, rating |-> <<"5">>, read_status |-> <<"r">>,
               formats |-> StrKindle, kindle_owned |-> <<"1">>,
               sources |-> <<"g">>, publisher |-> <<"P">>]), "tags", <<"a">>),
      \* a Kindle book known by its ASIN only
      Row([work_id |-> S_W2, asin |-> S_ASIN_A, title |-> S_X, author |-> S_DO_JO,
           notes |-> <<"n">>, formats |-> StrKindle, kindle_owned |-> <<"1">>]),
      \* a book without identifiers and without a work_id yet
      Row([title |-> S_THE_X, author |-> S_JO_DO, physical_owned |-> <<"0">>]) }

\* rows of the canonical source files
NewRecordSamples ==
    { \* the ISBN-13 of the first row, hyphenated, with other ratings and tags
      [work_id |-> S_W3, isbn13 |-> S_ISBN_A_HYPHEN, asin |-> None, title |-> S_X,
       author |-> S_DO_JO, rating |-> <<"1">>, read_status |-> <<"u">>,
       formats |-> S_PHYSICAL_KINDLE, sources |-> <<"k">>, tags |-> <<"b">>,
       publisher |-> <<"Q">>, notes |-> <<"m">>],
      \* the same ISBN-13, no work_id
      [work_id |-> None, isbn13 |-> S_ISBN_A, asin |-> None, title |-> S_THE_X,
       author |-> S_JO_DO, rating |-> None, formats |-> StrPhysical, tags |-> <<"c">>],
      \* another edition: other ISBN-13, same title, same surname
      [work_id |-> None, isbn13 |-> S_ISBN_B, asin |-> None, title |-> S_THE_X,
       author |-> S_DO_J, formats |-> None, tags |-> None],
      \* a Kindle row: ASIN only
      [work_id |-> None, isbn13 |-> None, asin |-> S_ASIN_A, title |-> S_THE_X,
       author |-> S_JO_DO, rating |-> <<"4">>, formats |-> StrKindle, sources |-> <<"k">>],
      \* a print edition that carries the ASIN of the Kindle book as well
      [work_id |-> None, isbn13 |-> S_ISBN_B, asin |-> S_ASIN_A, title |-> S_X,
       author |-> S_DO_JO, formats |-> StrPhysical, physical_owned |-> <<"1">>],
      \* a Kindle row of the older layout: kindle_asin, own work_id
      [work_id |-> S_W3, kindle_asin |-> S_ASIN_A_LOWER, title |-> S_X,
       formats |-> S_KINDLE_CAP],
      \* title and author only
      [work_id |-> None, isbn13 |-> None, asin |-> None, title |-> S_X,
       author |-> S_JO_DO, rating |-> <<"3">>, tags |-> <<"b">>, formats |-> StrPhysical],
      \* title and author only, the other cells blank strings
      [work_id |-> <<>>, isbn13 |-> <<>>, asin |-> <<>>, title |-> S_X,
       author |-> S_DO_JO, formats |-> StrAudiobook],
      \* nothing usable, every cell a blank string
      [work_id |-> <<>>, isbn13 |-> <<>>, asin |-> <<>>, title |-> <<>>, author |-> <<>>],
      \* nothing at all
      [work_id |-> None, isbn13 |-> None, asin |-> None, title |-> None, author |-> None] }

----------------------------------------------------------------------------
(* merge_books: one step per iteration of its loop *)

InLoop == mb_pc = "loop" /\ mb_i < Len(new_books)

SafeMergeIdle ==
    /\ sm_pc = "idle" /\ sm_existing = EmptyDict /\ sm_new = EmptyDict
    /\ sm_merged = EmptyDict

FnIdle == fn_pc = "idle" /\ fn_args = EmptyDict /\ fn_ret = <<>>

Init ==
    /\ SafeMergeIdle
    /\ FnIdle
    /\ mb_run = 1
    /\ existing_books \in SeqsUpTo(ExistingRowSamples, MaxExisting)
    /\ new_books \in SeqsUpTo(NewRecordSamples, MaxBatch)
    /\ merged = existing_books
    /\ possible_duplicates = <<>>
    /\ mb_pc = "loop"
    /\ mb_i = 0
    /\ mb_dest = <<>>
    /\ uuid_next = 0

\* lines 140-143: the best match reaches the auto-merge threshold
Fuse(normalized_new, best_idx, confidence) ==
    /\ merged' = [merged EXCEPT ![best_idx] = safe_merge(merged[best_idx], normalized_new)]
    /\ mb_dest' = Append(mb_dest, [kind |-> "fused", idx |-> best_idx,
                                   confidence |-> confidence])
    /\ mb_i' = mb_i + 1
    /\ UNCHANGED <<sm_pc, sm_existing, sm_new, sm_merged, mb_pc, existing_books,
                   new_books, possible_duplicates, uuid_next, mb_run, fn_vars>>

\* the append of the three other branches: row is the new row after the
\* work_id assignment, its work_id AttributeError when that raised; the pair
\* is reported when duplicate_of is the index of a row, not when it is 0
AppendNew(normalized_new, row, confidence, duplicate_of) ==
    /\ IF row["work_id"] = AttributeError
       THEN /\ mb_pc' = "raised"
            /\ UNCHANGED <<merged, possible_duplicates, mb_i, mb_dest, uuid_next>>
       ELSE /\ merged' = Append(merged, row)
            /\ possible_duplicates' =
                    IF duplicate_of = 0 THEN possible_duplicates
                    ELSE Append(possible_duplicates, <<merged[duplicate_of], row, confidence>>)
            /\ mb_dest' = Append(mb_dest, [kind |-> "appended", idx |-> Len(merged) + 1,
                                           confidence |-> confidence])
            /\ mb_i' = mb_i + 1
            /\ uuid_next' = IF /\ ~Truthy(normalized_new["work_id"])
                               /\ row["work_id"] = PrefixUuid \o Uuid4Hex16(uuid_next)
                            THEN uuid_next + 1 ELSE uuid_next
            /\ UNCHANGED mb_pc
    /\ UNCHANGED <<sm_pc, sm_existing, sm_new, sm_merged, existing_books, new_books,
                   mb_run, fn_vars>>

\* lines 131-143
AutoMerge ==
    /\ InLoop
    /\ \E normalized_new \in {normalize_row(new_books[mb_i + 1])} :
       \E matches \in {find_matches(normalized_new, merged)} :
            /\ matches /= <<>>
            /\ matches[1][2] >= AUTO_MERGE_THRESHOLD
            /\ Fuse(normalized_new, matches[1][1], matches[1][2])

\* lines 131-139 and 145-156
AddPossibleDuplicate ==
    /\ InLoop
    /\ \E normalized_new \in {normalize_row(new_books[mb_i + 1])} :
       \E matches \in {find_matches(normalized_new, merged)} :
            /\ matches /= <<>>
            /\ matches[1][2] < AUTO_MERGE_THRESHOLD
            /\ matches[1][2] >= POSSIBLE_DUPLICATE_THRESHOLD
            /\ AppendNew(normalized_new, assign_work_id(normalized_new, uuid_next),
                         matches[1][2], matches[1][1])

\* lines 131-139 and 158-165
AddLowConfidence ==
    /\ InLoop
    /\ \E normalized_new \in {normalize_row(new_books[mb_i + 1])} :
       \E matches \in {find_matches(normalized_new, merged)} :
            /\ matches /= <<>>
            /\ matches[1][2] < POSSIBLE_DUPLICATE_THRESHOLD
            /\ AppendNew(normalized_new, assign_work_id(normalized_new, uuid_next),
                         matches[1][2], 0)

\* lines 131-136 and 167-174
AddNoMatch ==
    /\ InLoop
    /\ \E normalized_new \in {normalize_row(new_books[mb_i + 1])} :
            /\ find_matches(normalized_new, merged) = <<>>
            /\ AppendNew(normalized_new, assign_work_id(normalized_new, uuid_next), 0, 0)

\* line 176
Return ==
    /\ mb_pc = "loop"
    /\ mb_i = Len(new_books)
    /\ mb_pc' = "done"
    /\ UNCHANGED <<sm_pc, sm_existing, sm_new, sm_merged, existing_books, new_books,
                   merged, possible_duplicates, mb_i, mb_dest, uuid_next, mb_run, fn_vars>>

Next == AutoMerge \/ AddPossibleDuplicate \/ AddLowConfidence \/ AddNoMatch \/ Return

Spec == Init /\ [][Next]_vars

----------------------------------------------------------------------------
(* merge_books run a second time: main reads the table the first run wrote
   and the same source files (merge_and_dedupe.py:195-205) *)

\* the second call merge_books(merged, new_books) after the first has returned
Rerun ==
    /\ mb_pc = "done"
    /\ mb_run = 1
    /\ mb_run' = 2
    /\ existing_books' = merged
    /\ possible_duplicates' = <<>>
    /\ mb_pc' = "loop"
    /\ mb_i' = 0
    /\ mb_dest' = <<>>
    /\ UNCHANGED <<sm_vars, new_books, merged, uuid_next, fn_vars>>

NextRerun == Next \/ Rerun

SpecRerun == Init /\ [][NextRerun]_vars

----------------------------------------------------------------------------
(* safe_merge called on its own: one call on a pair of records *)

MergeBooksIdle ==
    /\ mb_pc = "idle" /\ existing_books = <<>> /\ new_books = <<>> /\ merged = <<>>
    /\ possible_duplicates = <<>> /\ mb_i = 0 /\ mb_dest = <<>> /\ mb_run = 0

\* the cells of a field that holds one value
ScalarValues == {None, <<>>, <<" ">>, <<"5">>, <<"1">>, <<" ","5">>}

\* the cells of a pipe-delimited field: up to MaxTokens tokens, some of them
\* empty or padded, in any order, and the two values of the formats example
PipeTokenSamples == {<<>>, <<"a">>, <<"b">>, <<" ","a"," ">>}
S_KINDLE_PHYSICAL == <<"k","i","n","d","l","e","|","p","h","y","s","i","c","a","l">>
S_KINDLE_AUDIOBOOK == <<"k","i","n","d","l","e","|","a","u","d","i","o","b","o","o","k">>
S_AUDIOBOOK_KINDLE_PHYSICAL == <<"a","u","d","i","o","b","o","o","k","|","k","i","n","d","l","e","|","p","h","y","s","i","c","a","l">>
PipeValues ==
    {None, S_KINDLE_PHYSICAL, S_KINDLE_AUDIOBOOK}
    \cup {Join(ts, <<"|">>) : ts \in SeqsUpTo(PipeTokenSamples, MaxTokens) \ {<<>>}}

MergeKeys == CANONICAL_FIELDS \cup MULTI_VALUED_FIELDS \cup {"kindle_asin"}

ValuesOf(key) == IF key \in MULTI_VALUED_FIELDS THEN PipeValues ELSE ScalarValues

\* a record with the cell v under key and the cell r under rating, Absent
\* standing for a missing key
MakeRecord(key, v, r) ==
    LET base == IF r = Absent THEN EmptyDict ELSE [rating |-> r]
    IN  IF v = Absent THEN base ELSE Put(base, key, v)

InitMerge ==
    /\ MergeBooksIdle
    /\ FnIdle
    /\ uuid_next = 0
    /\ \E key \in MergeKeys :
       \E ve \in ValuesOf(key) \cup {Absent}, vn \in ValuesOf(key) \cup {Absent} :
       \E re \in {Absent, <<"5">>}, rn \in {Absent, <<"1">>} :
            /\ sm_existing = MakeRecord(key, ve, re)
            /\ sm_new = MakeRecord(key, vn, rn)
    /\ sm_merged = EmptyDict
    /\ sm_pc = "call"

SafeMergeCall ==
    /\ sm_pc = "call"
    /\ sm_merged' = safe_merge(sm_existing, sm_new)
    /\ sm_pc' = "done"
    /\ UNCHANGED <<sm_existing, sm_new, mb_vars, uuid_next, fn_vars>>

NextMerge == SafeMergeCall

SpecMerge == InitMerge /\ [][NextMerge]_vars

----------------------------------------------------------------------------
(* union_pipe called on its own, once as union_pipe(existing, new) and once
   with the arguments exchanged *)

NothingElseRuns == SafeMergeIdle /\ MergeBooksIdle

InitUnion ==
    /\ NothingElseRuns
    /\ uuid_next = 0
    /\ fn_args \in [existing : PipeValues, new : PipeValues]
    /\ fn_ret = <<>>
    /\ fn_pc = "call"

UnionPipeCall ==
    /\ fn_pc = "call"
    /\ fn_ret' = Append(fn_ret,
                        IF fn_ret = <<>> THEN union_pipe(fn_args.existing, fn_args.new)
                        ELSE union_pipe(fn_args.new, fn_args.existing))
    /\ fn_pc' = IF fn_ret = <<>> THEN "call" ELSE "done"
    /\ UNCHANGED <<sm_vars, mb_vars, uuid_next, fn_args>>

NextUnion == UnionPipeCall

SpecUnion == InitUnion /\ [][NextUnion]_vars

----------------------------------------------------------------------------
(* The cells of the identity fields of a record: a missing key (Absent), None,
   and strings *)

S_ISBN_SHORT == <<"9","7","8">>
S_ASIN_SHORT == <<"B","0","1">>
S_X_BANG == <<"X","!">>

IsbnCells == {Absent, None, <<>>, S_ISBN_A, S_ISBN_A_HYPHEN, S_ISBN_SHORT}
AsinCells == {Absent, None, S_ASIN_A, S_ASIN_A_LOWER, S_ASIN_SHORT}
TitleCells == {Absent, None, S_THE_X, S_X, S_X_BANG}
AuthorCells == {Absent, None, S_JO_DO, S_DO_JO, S_DO_J}

\* the dict of the keys whose cell is not Absent
MakeBook(cells) == [k \in {f \in DOMAIN cells : cells[f] /= Absent} |-> cells[k]]

----------------------------------------------------------------------------
(* compute_canonical_id called on its own, on a row and then on another row
   that has a title and an author only *)

InitCanonical ==
    /\ NothingElseRuns
    /\ uuid_next = 0
    /\ \E isbn13 \in IsbnCells, asin \in AsinCells, title \in TitleCells,
          author \in AuthorCells, title2 \in {None, S_THE_X, S_X},
          author2 \in {S_JO_DO, S_DO_JO} :
            fn_args = [row |-> MakeBook([isbn13 |-> isbn13, asin |-> asin,
                                         title |-> title, author |-> author]),
                       other |-> [title |-> title2, author |-> author2]]
    /\ fn_ret = <<>>
    /\ fn_pc = "call"

ComputeCanonicalIdCall ==
    /\ fn_pc = "call"
    /\ fn_ret' = Append(fn_ret, compute_canonical_id(IF fn_ret = <<>> THEN fn_args.row
                                                     ELSE fn_args.other))
    /\ fn_pc' = IF fn_ret = <<>> THEN "call" ELSE "done"
    /\ UNCHANGED <<sm_vars, mb_vars, uuid_next, fn_args>>

NextCanonical == ComputeCanonicalIdCall

SpecCanonical == InitCanonical /\ [][NextCanonical]_vars

----------------------------------------------------------------------------
(* generate_work_id called on its own, twice in a row on the same record *)

S_W1_PADDED == <<"w","1"," ">>
S_W2_PADDED == <<" ","w","2">>

WorkIdCells == {Absent, None, <<" ">>, S_W1_PADDED}
ExistingWorkIdArgs == {None, <<" ">>, S_W2_PADDED}

InitWorkId ==
    /\ NothingElseRuns
    /\ uuid_next = 0
    /\ \E work_id \in WorkIdCells, isbn13 \in IsbnCells, asin \in AsinCells,
          title \in TitleCells, author \in AuthorCells,
          existing_work_id \in ExistingWorkIdArgs :
            fn_args = [book |-> MakeBook([work_id |-> work_id, isbn13 |-> isbn13,
                                          asin |-> asin, title |-> title,
                                          author |-> author]),
                       existing_work_id |-> existing_work_id]
    /\ fn_ret = <<>>
    /\ fn_pc = "call"

\* one call; an AttributeError ends the caller
GenerateWorkIdCall ==
    /\ fn_pc = "call"
    /\ \E work_id \in {generate_work_id(fn_args.book, fn_args.existing_work_id, uuid_next)} :
            IF work_id = AttributeError
            THEN /\ fn_pc' = "raised"
                 /\ UNCHANGED <<fn_ret, uuid_next>>
            ELSE /\ fn_ret' = Append(fn_ret, work_id)
                 /\ uuid_next' = IF work_id = PrefixUuid \o Uuid4Hex16(uuid_next)
                                 THEN uuid_next + 1 ELSE uuid_next
                 /\ fn_pc' = IF fn_ret = <<>> THEN "call" ELSE "done"
    /\ UNCHANGED <<sm_vars, mb_vars, fn_args>>

NextWorkId == GenerateWorkIdCall

SpecWorkId == InitWorkId /\ [][NextWorkId]_vars

----------------------------------------------------------------------------
(* find_matches called on its own, on a new row and a list of candidates *)

MaxCandidates == 2

S_Y_X == <<"y"," ","x">>
S_X_Y == <<"X"," ","Y">>
S_A_THE_X == <<"A"," ","T","h","e"," ","X">>
S_GATSBY == <<"T","h","e"," ","G","r","e","a","t"," ","G","a","t","s","b","y">>
S_GATSBY_NOVEL == S_GATSBY \o <<":"," ","A"," ","N","o","v","e","l">>
S_FITZGERALD == <<"F","."," ","S","c","o","t","t"," ",
                  "F","i","t","z","g","e","r","a","l","d">>

MatchNewSamples ==
    { [isbn13 |-> S_ISBN_A_HYPHEN, asin |-> None, title |-> S_X, author |-> S_DO_JO],
      [isbn13 |-> S_ISBN_B, asin |-> None, title |-> S_THE_X, author |-> S_DO_J],
      [isbn13 |-> S_ISBN_B, asin |-> S_ASIN_A_LOWER, title |-> S_Y_X, author |-> S_JO_DO],
      [isbn13 |-> S_ISBN_B, title |-> S_Y_X, author |-> S_DO_J],
      [isbn13 |-> S_ISBN_B, asin |-> None, title |-> S_THE_X, author |-> S_JO_DO],
      [isbn13 |-> S_ISBN_A, asin |-> None, title |-> None, author |-> None],
      [isbn13 |-> S_ISBN_SHORT, title |-> S_Y_X, author |-> S_DO_J],
      [isbn13 |-> None, asin |-> None, title |-> S_X, author |-> S_JO_DO],
      [title |-> S_GATSBY, author |-> S_FITZGERALD],
      [title |-> S_A_THE_X, author |-> S_JO_DO],
      [isbn13 |-> None, asin |-> None, title |-> None, author |-> None] }

MatchCandidateSamples ==
    { [isbn13 |-> S_ISBN_A, asin |-> None, title |-> S_THE_X, author |-> S_JO_DO],
      [isbn13 |-> None, asin |-> S_ASIN_A, title |-> S_X_Y, author |-> S_JO_DO],
      [isbn13 |-> S_ISBN_A, title |-> S_X_Y, author |-> S_DO_JO],
      [isbn13 |-> S_ISBN_A, title |-> S_Y_X, author |-> S_DO_J],
      [isbn13 |-> None, asin |-> None, title |-> S_THE_X, author |-> S_JO_DO],
      [title |-> S_X_Y, author |-> S_DO_JO],
      [title |-> S_GATSBY_NOVEL, author |-> S_FITZGERALD],
      [isbn13 |-> S_ISBN_B, asin |-> None, title |-> None, author |-> None],
      [isbn13 |-> None, asin |-> None, title |-> None, author |-> None] }

InitMatch ==
    /\ NothingElseRuns
    /\ uuid_next = 0
    /\ fn_args \in [new_row : MatchNewSamples,
                    existing_rows : SeqsUpTo(MatchCandidateSamples, MaxCandidates)]
    /\ fn_ret = <<>>
    /\ fn_pc = "call"

FindMatchesCall ==
    /\ fn_pc = "call"
    /\ fn_ret' = <<find_matches(fn_args.new_row, fn_args.existing_rows)>>
    /\ fn_pc' = "done"
    /\ UNCHANGED <<sm_vars, mb_vars, uuid_next, fn_args>>

NextMatch == FindMatchesCall

SpecMatch == InitMatch /\ [][NextMatch]_vars

----------------------------------------------------------------------------
(* normalize_title called on its own *)

\* the longest title, in words
MaxTitleWords == 3

S_THE == <<"T","h","e">>
S_A == <<"A">>
S_AN == <<"A","n">>
S_Y == <<"y">>

TitleWordSamples == {S_THE, S_A, S_AN, S_X, S_Y}

\* the titles of n words separated by one space
RECURSIVE TitlesOf(_)
TitlesOf(n) ==
    IF n = 1 THEN TitleWordSamples
    ELSE {t \o <<" ">> \o w : t \in TitlesOf(n - 1), w \in TitleWordSamples}

TitleSamples ==
    UNION {TitlesOf(n) : n \in 1..MaxTitleWords} \cup {None, <<>>, <<" ","T","h","e"," "," ","A",","," ","X","!"," ">>}

InitTitle ==
    /\ NothingElseRuns
    /\ uuid_next = 0
    /\ fn_args \in [title : TitleSamples]
    /\ fn_ret = <<>>
    /\ fn_pc = "call"

NormalizeTitleCall ==
    /\ fn_pc = "call"
    /\ fn_ret' = <<normalize_title(fn_args.title)>>
    /\ fn_pc' = "done"
    /\ UNCHANGED <<sm_vars, mb_vars, uuid_next, fn_args>>

NextTitle == NormalizeTitleCall

SpecTitle == InitTitle /\ [][NextTitle]_vars

----------------------------------------------------------------------------
(* compute_title_similarity called on its own *)

S_X_X == <<"X"," ","X">>
S_GATSBY_ALONE == <<"G","a","t","s","b","y">>

SimilarityTitleSamples ==
    {None, <<>>, S_X, S_THE_X, S_X_BANG, S_X_X, S_Y, S_Y_X, S_X_Y, S_A_THE_X,
     S_GATSBY, S_GATSBY_ALONE, S_GATSBY_NOVEL,
     <<"x"," ","y","!">>,
     <<"g","r","e","a","t"," ","g","a","t","s","b","y">>,
     <<"1","9","8","4">>}

InitSimilarity ==
    /\ NothingElseRuns
    /\ uuid_next = 0
    /\ fn_args \in [title1 : SimilarityTitleSamples, title2 : SimilarityTitleSamples]
    /\ fn_ret = <<>>
    /\ fn_pc = "call"

ComputeTitleSimilarityCall ==
    /\ fn_pc = "call"
    /\ fn_ret' = <<compute_title_similarity(fn_args.title1, fn_args.title2)>>
    /\ fn_pc' = "done"
    /\ UNCHANGED <<sm_vars, mb_vars, uuid_next, fn_args>>

NextSimilarity == ComputeTitleSimilarityCall

SpecSimilarity == InitSimilarity /\ [][NextSimilarity]_vars

----------------------------------------------------------------------------
(* merge_books run batch after batch, from an empty table, on records that
   carry no work_id *)

\* the number of batches
MaxRuns == 2

\* an ISBN-13 typed with a tab in it
S_ISBN_A_TAB == <<"9","7","8","0","0","0","0","0","0","0","\t","0","0","1">>

\* rows of the source files before any work_id exists, absent cells read as ''
UnkeyedRecordSamples ==
    { \* a print book whose ISBN-13 has a tab in it
      [work_id |-> <<>>, isbn13 |-> S_ISBN_A_TAB, asin |-> <<>>, title |-> S_X,
       author |-> S_JO_DO],
      \* a book known by title and author only
      [work_id |-> <<>>, isbn13 |-> <<>>, asin |-> <<>>, title |-> S_THE_X,
       author |-> S_DO_JO],
      \* a Kindle book known by its ASIN
      [work_id |-> <<>>, isbn13 |-> <<>>, asin |-> S_ASIN_A, title |-> S_X,
       author |-> S_JO_DO],
      \* a print edition that carries the ASIN of the Kindle book as well
      [work_id |-> <<>>, isbn13 |-> S_ISBN_B, asin |-> S_ASIN_A, title |-> S_X,
       author |-> S_DO_J] }

InitKey ==
    /\ SafeMergeIdle
    /\ FnIdle
    /\ mb_run = 1
    /\ existing_books = <<>>
    /\ new_books \in SeqsUpTo(UnkeyedRecordSamples, MaxBatch)
    /\ merged = existing_books
    /\ possible_duplicates = <<>>
    /\ mb_pc = "loop"
    /\ mb_i = 0
    /\ mb_dest = <<>>
    /\ uuid_next = 0

\* the next call merge_books(merged, batch) after the previous has returned
NextBatch(batch) ==
    /\ mb_pc = "done"
    /\ mb_run < MaxRuns
    /\ mb_run' = mb_run + 1
    /\ existing_books' = merged
    /\ new_books' = batch
    /\ possible_duplicates' = <<>>
    /\ mb_pc' = "loop"
    /\ mb_i' = 0
    /\ mb_dest' = <<>>
    /\ UNCHANGED <<sm_vars, merged, uuid_next, fn_vars>>

NextKey == Next \/ \E batch \in SeqsUpTo(UnkeyedRecordSamples, MaxBatch) : NextBatch(batch)

SpecKey == InitKey /\ [][NextKey]_vars

----------------------------------------------------------------------------
(* Properties of safe_merge, checked under SpecMerge *)

\* "set" as the data model words it: non-empty after trimming whitespace
IsSet(v) == v /= None /\ \E i \in 1..Len(v) : ~IsSpace(v[i])

Returned == sm_pc = "done"

\* the tokens a pipe-delimited cell stands for
TokensOf(v) == IF v = None THEN {} ELSE PipeTokens(v)

\* v is the '|'-join of the tokens of U in strictly ascending order
IsSortedJoinOf(v, U) ==
    /\ v /= None
    /\ LET parts == Split(v, "|")
       IN  /\ Range(parts) = U
           /\ \A i \in 1..Len(parts) : parts[i] /= <<>> /\ Strip(parts[i]) = parts[i]
           /\ \A i \in 1..(Len(parts) - 1) : StrLess(parts[i], parts[i + 1])

\* C1: once safe_merge has returned, every protected field that was set in
\* existing has in the merged record exactly the value it had in existing,
\* whatever new holds for it.
C1_ProtectedImmutable ==
    Returned =>
        \A f \in PROTECTED_FIELDS :
            IsSet(Get(sm_existing, f)) =>
                f \in DOMAIN sm_merged /\ sm_merged[f] = sm_existing[f]

\* a protected field set on both sides to different values, existing's kept
C1_Witness ==
    /\ Returned
    /\ \E f \in PROTECTED_FIELDS \ {"rating", "work_id"} :
            /\ IsSet(Get(sm_existing, f)) /\ IsSet(Get(sm_new, f))
            /\ sm_new[f] /= sm_existing[f]
            /\ sm_merged[f] = sm_existing[f]

\* C5: the merged work_id is existing's when that is set; otherwise new's when
\* that is set; otherwise it is unset.
C5_WorkIdResolution ==
    Returned =>
        IF IsSet(Get(sm_existing, "work_id"))
        THEN Get(sm_merged, "work_id") = sm_existing["work_id"]
        ELSE IF IsSet(Get(sm_new, "work_id"))
        THEN Get(sm_merged, "work_id") = sm_new["work_id"]
        ELSE ~IsSet(Get(sm_merged, "work_id"))

\* C6: a protected field other than work_id that is unset in existing and set
\* in new has new's value in the merged record.
C6_ProtectedFill ==
    Returned =>
        \A f \in PROTECTED_FIELDS \ {"work_id"} :
            (~IsSet(Get(sm_existing, f)) /\ IsSet(Get(sm_new, f))) =>
                Get(sm_merged, f) = sm_new[f]

\* a protected field filled from new, once over a blank cell and once over a
\* missing key
C6_Witness ==
    /\ Returned
    /\ \E f \in PROTECTED_FIELDS \ {"work_id", "rating"} :
            /\ IsSet(Get(sm_new, f))
            /\ f \in DOMAIN sm_existing /\ sm_existing[f] = <<" ">>
            /\ sm_merged[f] = sm_new[f]

\* C7: for a key of new that is neither work_id nor protected nor
\* multi-valued, the merged value is new's when existing's is unset and new's
\* is set, existing's when both are set, and unset when neither is set.
C7_SafeFieldPolicy ==
    Returned =>
        \A key \in DOMAIN sm_new \ (PROTECTED_FIELDS \cup MULTI_VALUED_FIELDS) :
            LET e == Get(sm_existing, key)
                n == sm_new[key]
                m == Get(sm_merged, key)
            IN  /\ (~IsSet(e) /\ IsSet(n)) => m = n
                /\ (IsSet(e) /\ IsSet(n)) => m = e
                /\ (~IsSet(e) /\ ~IsSet(n)) => ~IsSet(m)

\* a safe field set on both sides to different values, existing's kept
C7_Witness ==
    /\ Returned
    /\ \E key \in DOMAIN sm_new \ (PROTECTED_FIELDS \cup MULTI_VALUED_FIELDS) :
            /\ IsSet(Get(sm_existing, key)) /\ IsSet(sm_new[key])
            /\ sm_new[key] /= sm_existing[key]
            /\ sm_merged[key] = sm_existing[key]

\* C8: a multi-valued field present in both records is merged to the sorted,
\* duplicate-free '|'-join of the trimmed non-empty tokens of both sides, None
\* when there is no token; formats 'kindle|physical' with 'kindle|audiobook'
\* gives 'audiobook|kindle|physical' while rating '5' against '1' stays '5'.
C8_MultiValuedUnion ==
    Returned =>
        /\ \A f \in MULTI_VALUED_FIELDS \cap DOMAIN sm_existing \cap DOMAIN sm_new :
                LET U == TokensOf(sm_existing[f]) \cup TokensOf(sm_new[f])
                IN  IF U = {} THEN sm_merged[f] = None
                    ELSE IsSortedJoinOf(sm_merged[f], U)
        /\ (/\ Get(sm_existing, "formats") = S_KINDLE_PHYSICAL
            /\ Get(sm_new, "formats") = S_KINDLE_AUDIOBOOK
            /\ Get(sm_existing, "rating") = <<"5">>
            /\ Get(sm_new, "rating") = <<"1">>)
           => (/\ sm_merged["formats"] = S_AUDIOBOOK_KINDLE_PHYSICAL
               /\ sm_merged["rating"] = <<"5">>)

\* the formats example of the design, and a tags union out of unsorted,
\* padded tokens
C8_Witness ==
    /\ Returned
    /\ \/ /\ Get(sm_existing, "formats") = S_KINDLE_PHYSICAL
          /\ Get(sm_new, "formats") = S_KINDLE_AUDIOBOOK
          /\ Get(sm_existing, "rating") = <<"5">>
          /\ Get(sm_new, "rating") = <<"1">>
          /\ sm_merged["formats"] = S_AUDIOBOOK_KINDLE_PHYSICAL
       \/ /\ Get(sm_existing, "tags") = <<"b","|"," ","a"," ">>
          /\ Get(sm_new, "tags") = <<"b">>
          /\ sm_merged["tags"] = <<"a","|","b">>

\* two records equal key by key, two unset cells counting as equal
SameUpToUnset(a, b) ==
    /\ DOMAIN a = DOMAIN b
    /\ \A k \in DOMAIN a : a[k] = b[k] \/ (~IsSet(a[k]) /\ ~IsSet(b[k]))

\* C10 as stated: merging a record with itself returns the record, whatever
\* the order, repetition or padding of the tokens of its multi-valued fields.
C10_IdempotentAnyTokens ==
    (Returned /\ sm_existing = sm_new) => SameUpToUnset(sm_merged, sm_existing)

\* a multi-valued cell in the form union_pipe writes, or an unset one
IsCanonicalPipe(v) == ~IsSet(v) \/ IsSortedJoinOf(v, TokensOf(v))

\* C10 amended: merging a record with itself returns the record when each of
\* its multi-valued fields is unset or holds trimmed non-empty tokens in
\* strictly ascending order; an unset multi-valued cell comes back as None.
C10_IdempotentCanonical ==
    (/\ Returned
     /\ sm_existing = sm_new
     /\ \A f \in MULTI_VALUED_FIELDS \cap DOMAIN sm_existing :
            IsCanonicalPipe(sm_existing[f]))
    => /\ DOMAIN sm_merged = DOMAIN sm_existing
       /\ \A k \in DOMAIN sm_existing :
            IF k \in MULTI_VALUED_FIELDS /\ ~IsSet(sm_existing[k])
            THEN sm_merged[k] = None
            ELSE sm_merged[k] = sm_existing[k]

\* a record with a two-token multi-valued field and a rating merged with itself
C10_Witness ==
    /\ Returned
    /\ sm_existing = sm_new
    /\ \E f \in MULTI_VALUED_FIELDS \cap DOMAIN sm_existing :
            sm_existing[f] = <<"a","|","b">>
    /\ sm_merged = sm_existing

----------------------------------------------------------------------------
(* Properties of merge_books, checked under Spec *)

Fused(j) == mb_dest[j].kind = "fused"
Appended(j) == mb_dest[j].kind = "appended"
AppendedUpTo(j) == Cardinality({k \in 1..j : Appended(k)})

\* C2: at every point of a batch each row of the existing table is still at
\* its index and has, in every protected field that was set before the batch,
\* the value it had then.
C2_BatchKeepsProtected ==
    \A i \in 1..Len(existing_books) :
        /\ i <= Len(merged)
        /\ \A f \in PROTECTED_FIELDS :
                IsSet(Get(existing_books[i], f)) =>
                    Get(merged[i], f) = existing_books[i][f]

\* two records of one batch fused into the same existing row, the first with
\* another work_id and another rating than the row
C2_Witness ==
    /\ mb_pc = "done" /\ mb_i = 2
    /\ Fused(1) /\ Fused(2) /\ mb_dest[1].idx = mb_dest[2].idx
    /\ mb_dest[1].idx <= Len(existing_books)
    /\ LET row == existing_books[mb_dest[1].idx]
           rec == new_books[1]
       IN  /\ IsSet(row["rating"]) /\ IsSet(Get(rec, "rating"))
           /\ rec["rating"] /= row["rating"]
           /\ IsSet(row["work_id"]) /\ IsSet(Get(rec, "work_id"))
           /\ rec["work_id"] /= row["work_id"]

C4_SequentialMerges ==
    \A i \in 1..mb_i : \A j \in (i + 1)..mb_i :
        compute_canonical_id(normalize_row(new_books[i]))
            = compute_canonical_id(normalize_row(new_books[j]))
        => mb_dest[i].idx = mb_dest[j].idx

\* the second record of a batch fused into the row appended for the first
C4_Witness ==
    /\ mb_i = 2
    /\ Appended(1) /\ Fused(2)
    /\ mb_dest[1].idx = mb_dest[2].idx
    /\ mb_dest[1].idx = Len(existing_books) + 1
    /\ Len(merged) = Len(existing_books) + 1

\* C9: when a record is fused into a row, each of the row's formats, sources
\* and tags becomes the union of the row's and the record's tokens; when it is
\* appended, the appended row has the record's formats, sources and tags.
C9_PipelineUnion ==
    [][mb_i' = mb_i + 1 =>
        LET d == mb_dest'[mb_i']
            rec == new_books[mb_i']
        IN  \A f \in MULTI_VALUED_FIELDS :
                TokensOf(Get(merged'[d.idx], f)) =
                    IF d.kind = "fused"
                    THEN TokensOf(Get(merged[d.idx], f)) \cup TokensOf(Get(rec, f))
                    ELSE TokensOf(Get(rec, f))]_vars

----------------------------------------------------------------------------
(* Properties of a second run of merge_books, checked under SpecRerun *)

\* two tables equal row by row and key by key, two unset cells counting as equal
SameTable(a, b) ==
    /\ Len(a) = Len(b)
    /\ \A i \in 1..Len(a) : SameUpToUnset(a[i], b[i])

\* C11: throughout a second run of merge_books with the same batch against
\* the table the first run returned, the table is the one the run started
\* with: no row is added and no cell changes its value.
C11_RerunChangesNothing ==
    mb_run = 2 => SameTable(merged, existing_books)

----------------------------------------------------------------------------
(* Properties of union_pipe, checked under SpecUnion *)

\* C12: union_pipe(a, b) and union_pipe(b, a) are the same value, for None,
\* empty strings and strings with repeated, empty or padded tokens.
C12_UnionCommutes ==
    fn_pc = "done" => fn_ret[1] = fn_ret[2]

\* unsorted padded tokens on one side, a repeated token on the other
C12_Witness ==
    /\ fn_pc = "done"
    /\ fn_args.existing = <<"b","|"," ","a"," ">>
    /\ fn_args.new = <<"b","|","b">>
    /\ fn_ret = <<<<"a","|","b">>, <<"a","|","b">>>>

----------------------------------------------------------------------------
(* Properties of compute_canonical_id, checked under SpecCanonical *)

\* the identifier prefixes as the design spells them
IsbnTag == <<"i","s","b","n","1","3",":">>
AsinTag == <<"a","s","i","n",":">>
HashTag == <<"h","a","s","h",":">>
UuidTag == <<"u","u","i","d",":">>

\* the tier the design gives a row: its ISBN-13 when that normalizes, else
\* its ASIN when that normalizes, else the hash of title and author
CanonicalTier(row) ==
    IF normalize_isbn13(Get(row, "isbn13")) /= None THEN "isbn13"
    ELSE IF normalize_asin(Get(row, "asin")) /= None THEN "asin"
    ELSE "hash"

\* id is the canonical ID the design gives row
IsCanonicalIdOf(id, row) ==
    /\ id /= None
    /\ CASE CanonicalTier(row) = "isbn13" ->
                id = IsbnTag \o normalize_isbn13(row["isbn13"])
         [] CanonicalTier(row) = "asin" ->
                id = AsinTag \o normalize_asin(row["asin"])
         [] OTHER -> StartsWith(id, HashTag)

\* C13: compute_canonical_id returns a string for every row; the string is
\* 'isbn13:' + the normalized ISBN-13 when that exists, even with a valid
\* ASIN; else 'asin:' + the normalized ASIN when that exists; else it starts
\* with 'hash:', and two rows of the hash tier with equal normalized title and
\* equal normalized author have the same ID.
C13_CanonicalIdPriority ==
    /\ Len(fn_ret) >= 1 => IsCanonicalIdOf(fn_ret[1], fn_args.row)
    /\ Len(fn_ret) = 2 =>
        /\ IsCanonicalIdOf(fn_ret[2], fn_args.other)
        /\ (/\ CanonicalTier(fn_args.row) = "hash"
            /\ normalize_title(Get(fn_args.row, "title"))
                    = normalize_title(fn_args.other.title)
            /\ normalize_author(Get(fn_args.row, "author"))
                    = normalize_author(fn_args.other.author))
           => fn_ret[1] = fn_ret[2]

\* a row with a valid hyphenated ISBN-13 and a valid ASIN, followed by a row
\* of the hash tier
C13_Witness ==
    /\ fn_pc = "done"
    /\ Get(fn_args.row, "isbn13") = S_ISBN_A_HYPHEN
    /\ Get(fn_args.row, "asin") = S_ASIN_A_LOWER
    /\ fn_ret[1] = IsbnTag \o S_ISBN_A
    /\ StartsWith(fn_ret[2], HashTag)

----------------------------------------------------------------------------
(* Properties of generate_work_id, checked under SpecWorkId *)

\* what a record offers, in the words of the design
CarriedWorkId(args) ==
    IF IsSet(args.existing_work_id) THEN Strip(args.existing_work_id)
    ELSE IF IsSet(Get(args.book, "work_id")) THEN Strip(args.book["work_id"])
    ELSE None

WithoutHyphensAndSpaces(v) == SelectSeq(v, LAMBDA c : c /= "-" /\ c /= " ")

OffersIsbn13(book) ==
    /\ IsSet(Get(book, "isbn13"))
    /\ Len(WithoutHyphensAndSpaces(Strip(book["isbn13"]))) = 13
    /\ \A c \in Range(WithoutHyphensAndSpaces(Strip(book["isbn13"]))) : IsDigit(c)

OffersAsin(book) == IsSet(Get(book, "asin")) /\ Len(Strip(book["asin"])) = 10

OffersTitleAndAuthor(book) == IsSet(Get(book, "title")) /\ IsSet(Get(book, "author"))

WorkIdTier(args) ==
    IF CarriedWorkId(args) /= None THEN "carried"
    ELSE IF OffersIsbn13(args.book) THEN "isbn13"
    ELSE IF OffersAsin(args.book) THEN "asin"
    ELSE IF OffersTitleAndAuthor(args.book) THEN "hash"
    ELSE "uuid"

\* id is what the priority list gives for args
IsWorkIdOf(id, args) ==
    CASE WorkIdTier(args) = "carried" -> id = CarriedWorkId(args)
      [] WorkIdTier(args) = "isbn13" ->
            id = IsbnTag \o WithoutHyphensAndSpaces(Strip(args.book["isbn13"]))
      [] WorkIdTier(args) = "asin" -> id = AsinTag \o Upper(Strip(args.book["asin"]))
      [] WorkIdTier(args) = "hash" -> StartsWith(id, HashTag)
      [] OTHER -> StartsWith(id, UuidTag)

\* the part of C14 that is about the value of a call that returns
C14_PriorityWhenReturned ==
    \A k \in 1..Len(fn_ret) : IsWorkIdOf(fn_ret[k], fn_args)

\* C14: generate_work_id returns the first applicable of: the trimmed
\* existing_work_id argument, the trimmed work_id of the record, 'isbn13:' +
\* the 13 digits of the ISBN, 'asin:' + the upper-cased 10-character ASIN,
\* 'hash:' + a digest when title and author are set, and a 'uuid:' token.
C14_PriorityOrder ==
    /\ fn_pc /= "raised"
    /\ C14_PriorityWhenReturned

\* C15: generate_work_id returns for every record whose cells are strings,
\* None or missing; it never raises.
C15_NeverRaises == fn_pc /= "raised"

\* C16 as stated: every string generate_work_id returns starts with one of
\* 'isbn13:', 'asin:', 'hash:', 'uuid:'.
C16_AlwaysPrefixed ==
    \A k \in 1..Len(fn_ret) :
        \E tag \in {IsbnTag, AsinTag, HashTag, UuidTag} : StartsWith(fn_ret[k], tag)

\* C16 amended: a string generate_work_id returns starts with one of the four
\* prefixes when no work_id is carried, neither as the argument nor in the
\* record; a carried work_id is returned trimmed, whatever it looks like.
C16_PrefixedUnlessCarried ==
    \A k \in 1..Len(fn_ret) :
        IF CarriedWorkId(fn_args) = None
        THEN \E tag \in {IsbnTag, AsinTag, HashTag, UuidTag} : StartsWith(fn_ret[k], tag)
        ELSE fn_ret[k] = CarriedWorkId(fn_args)

\* a generated identifier: no work_id carried, the work_id cell blank, the
\* ISBN-13 hyphenated
C16_Witness ==
    /\ fn_pc = "done"
    /\ CarriedWorkId(fn_args) = None
    /\ Get(fn_args.book, "work_id") = <<" ">>
    /\ Get(fn_args.book, "isbn13") = S_ISBN_A_HYPHEN
    /\ fn_ret[1] = IsbnTag \o S_ISBN_A

\* the part of C17 that is about two calls that return
C17_StableWhenReturned ==
    Len(fn_ret) = 2 =>
        IF WorkIdTier(fn_args) /= "uuid"
        THEN /\ fn_ret[1] = fn_ret[2]
             /\ WorkIdTier(fn_args) = "hash" =>
                    fn_ret[1] = generate_work_id([title |-> fn_args.book["title"],
                                                  author |-> fn_args.book["author"]],
                                                 None, 0)
        ELSE /\ fn_ret[1] /= fn_ret[2]
             /\ StartsWith(fn_ret[1], UuidTag) /\ StartsWith(fn_ret[2], UuidTag)

\* C17: two calls of generate_work_id on equal inputs return equal strings
\* when the record offers a carried work_id, a valid ISBN-13, a valid ASIN or
\* a title and an author, the hash id being that of any record with the same
\* title and author; otherwise they return two different 'uuid:' strings.
C17_Stability ==
    /\ fn_pc /= "raised"
    /\ C17_StableWhenReturned

----------------------------------------------------------------------------
(* Properties of find_matches, checked under SpecMatch *)

MatchReturned == fn_pc = "done"

\* candidate idx is in the list find_matches returned
Reported(idx) == \E k \in 1..Len(fn_ret[1]) : fn_ret[1][k][1] = idx

\* its confidence there, in hundredths
ConfidenceOf(idx) ==
    fn_ret[1][CHOOSE k \in 1..Len(fn_ret[1]) : fn_ret[1][k][1] = idx][2]

\* the ISBN-13 of a cell with hyphens and whitespace ignored, None when that
\* is not 13 digits
Isbn13Of(v) ==
    IF v = None THEN None
    ELSE LET cleaned == SelectSeq(v, LAMBDA c : c /= "-" /\ ~IsSpace(c))
         IN  IF Len(cleaned) = 13 /\ \A c \in Range(cleaned) : IsDigit(c)
             THEN cleaned ELSE None

\* C18: a candidate with the canonical ID of the new record is reported with
\* confidence 1.0, and a candidate with the ISBN-13 of the new record, hyphens
\* and spaces ignored, is reported with confidence 0.95 or more, whatever the
\* titles, authors and ASINs are.
C18_IdentifierTiers ==
    MatchReturned =>
        \A idx \in 1..Len(fn_args.existing_rows) :
            LET new == fn_args.new_row
                cand == fn_args.existing_rows[idx]
            IN  /\ compute_canonical_id(new) = compute_canonical_id(cand)
                    => Reported(idx) /\ ConfidenceOf(idx) = 100
                /\ (/\ Isbn13Of(Get(new, "isbn13")) /= None
                    /\ Isbn13Of(Get(new, "isbn13")) = Isbn13Of(Get(cand, "isbn13")))
                    => Reported(idx) /\ ConfidenceOf(idx) >= 95

\* a hyphenated ISBN-13 against the same ISBN-13 without hyphens, title and
\* author written differently
C18_Witness ==
    /\ MatchReturned
    /\ Len(fn_args.existing_rows) = 2
    /\ Get(fn_args.new_row, "isbn13") = S_ISBN_A_HYPHEN
    /\ Get(fn_args.existing_rows[2], "isbn13") = S_ISBN_A
    /\ fn_args.existing_rows[2].title = S_X_Y
    /\ Reported(2) /\ ConfidenceOf(2) = 100
    /\ ~Reported(1)

\* the new record has a valid ISBN-13 or a valid ASIN
HasIdentifier(row) ==
    normalize_isbn13(Get(row, "isbn13")) /= None \/ normalize_asin(Get(row, "asin")) /= None

\* the two rows have the same canonical ID, the same ISBN-13 or the same ASIN
SharesIdentifier(new, cand) ==
    \/ compute_canonical_id(new) = compute_canonical_id(cand)
    \/ /\ normalize_isbn13(Get(new, "isbn13")) /= None
       /\ normalize_isbn13(Get(new, "isbn13")) = normalize_isbn13(Get(cand, "isbn13"))
    \/ /\ normalize_asin(Get(new, "asin")) /= None
       /\ normalize_asin(Get(new, "asin")) = normalize_asin(Get(cand, "asin"))

NormTitle(row) == normalize_title(Get(row, "title"))
NormAuthor(row) == normalize_author(Get(row, "author"))

\* the normalized titles are equal and the normalized authors are equal
EqualTitleAndAuthor(new, cand) ==
    /\ NormTitle(new) = NormTitle(cand)
    /\ NormAuthor(new) = NormAuthor(cand)

\* both rows have a title and an author, and these are equal once normalized
SameTitleAndAuthor(new, cand) ==
    /\ NormTitle(new) /= <<>> /\ NormAuthor(new) /= <<>>
    /\ EqualTitleAndAuthor(new, cand)

\* C19 as stated: when the new record has a valid ISBN-13 or ASIN, a
\* candidate that shares no canonical ID, ISBN-13 or ASIN with it and has
\* another normalized title is not reported, and one that shares no
\* identifier and has the same normalized title and author is reported at 0.85.
C19_EqualTitleAuthorReported ==
    (MatchReturned /\ HasIdentifier(fn_args.new_row)) =>
        \A idx \in 1..Len(fn_args.existing_rows) :
            LET new == fn_args.new_row
                cand == fn_args.existing_rows[idx]
            IN  ~SharesIdentifier(new, cand) =>
                    /\ NormTitle(new) /= NormTitle(cand) => ~Reported(idx)
                    /\ EqualTitleAndAuthor(new, cand)
                            => Reported(idx) /\ ConfidenceOf(idx) = 85

\* C19 amended: when the new record has a valid ISBN-13 or ASIN, a candidate
\* that shares no canonical ID, ISBN-13 or ASIN with it and has another
\* normalized title is not reported, however similar; one that shares no
\* identifier and has the same normalized title and author, both non-empty,
\* is reported at 0.85.
C19_NoFuzzyWithIdentifiers ==
    (MatchReturned /\ HasIdentifier(fn_args.new_row)) =>
        \A idx \in 1..Len(fn_args.existing_rows) :
            LET new == fn_args.new_row
                cand == fn_args.existing_rows[idx]
            IN  ~SharesIdentifier(new, cand) =>
                    /\ NormTitle(new) /= NormTitle(cand) => ~Reported(idx)
                    /\ SameTitleAndAuthor(new, cand)
                            => Reported(idx) /\ ConfidenceOf(idx) = 85

\* a new record with an ISBN-13 against a candidate without identifiers that
\* has the same words in the title and the same author up to the initial: the
\* fuzzy rule would accept the pair, and the candidate is not reported; and
\* against a candidate with its title and author and another ISBN-13, which
\* is reported at 0.85
C19_Witness ==
    /\ MatchReturned
    /\ Get(fn_args.new_row, "isbn13") = S_ISBN_B
    /\ fn_args.new_row.title = S_Y_X
    /\ Len(fn_args.existing_rows) = 2
    /\ fn_args.existing_rows[1] = [title |-> S_X_Y, author |-> S_DO_JO]
    /\ 100 * compute_title_similarity(NormTitle(fn_args.new_row),
                                      NormTitle(fn_args.existing_rows[1]))[1]
         >= 92 * compute_title_similarity(NormTitle(fn_args.new_row),
                                          NormTitle(fn_args.existing_rows[1]))[2]
    /\ compute_author_similarity(NormAuthor(fn_args.new_row),
                                 NormAuthor(fn_args.existing_rows[1])) >= 92
    /\ ~Reported(1)
    /\ Get(fn_args.existing_rows[2], "isbn13") = S_ISBN_A
    /\ SameTitleAndAuthor(fn_args.new_row, fn_args.existing_rows[2])
    /\ Reported(2) /\ ConfidenceOf(2) = 85

\* the combined score 0.6 * title + 0.4 * author in thousandths of the title
\* similarity's denominator
CombinedNum(ts, as) == 600 * ts[1] + 4 * as * ts[2]

FuzzyAccepts(ts, as) ==
    /\ 100 * ts[1] >= 92 * ts[2]
    /\ as >= 92
    /\ CombinedNum(ts, as) >= 920 * ts[2]

C21_SortedStable ==
    MatchReturned =>
        LET matches == fn_ret[1]
        IN  /\ \A k \in 1..Len(matches) : matches[k][1] \in 1..Len(fn_args.existing_rows)
            /\ \A k \in 1..Len(matches) : \A l \in (k + 1)..Len(matches) :
                    /\ matches[k][1] /= matches[l][1]
                    /\ matches[k][2] >= matches[l][2]
                    /\ matches[k][2] = matches[l][2] => matches[k][1] < matches[l][1]

\* the second candidate has the higher confidence and comes first
C21_Witness ==
    /\ MatchReturned
    /\ Len(fn_ret[1]) = 2
    /\ fn_ret[1][1][1] = 2 /\ fn_ret[1][2][1] = 1
    /\ fn_ret[1][1][2] > fn_ret[1][2][2]

----------------------------------------------------------------------------
(* Properties of the decisions of merge_books, checked under Spec *)

----------------------------------------------------------------------------
(* Properties of normalize_title, checked under SpecTitle *)

Articles == {<<"t","h","e">>, <<"a">>, <<"a","n">>}

\* the words of a title after lowercasing and removing punctuation
CleanedWords(title) ==
    IF IsSet(title) THEN Words(RemovePunctuation(Lower(title))) ELSE <<>>

\* C23: normalize_title returns the lowercased title without punctuation and
\* with single spaces, less exactly one leading article (the, a, an) when
\* one is followed by another word: a second article that becomes leading
\* after that removal is kept.
C23_AtMostOneArticle ==
    fn_pc = "done" =>
        LET words == CleanedWords(fn_args.title)
            kept == IF Len(words) >= 2 /\ words[1] \in Articles THEN Tail(words) ELSE words
        IN  fn_ret[1] = Join(kept, <<" ">>)

----------------------------------------------------------------------------
(* Properties of compute_title_similarity, checked under SpecSimilarity *)

\* the title lowercased, without punctuation, with single spaces and without
\* its leading articles
NormTitleOf(title) == IF IsSet(title) THEN normalize_title(title) ELSE <<>>

\* C24: compute_title_similarity returns 1.0 only when the two normalized
\* titles are the same non-empty string; for titles whose normalized forms
\* differ the score is strictly below 1.0.
C24_OneOnlyIfIdentical ==
    fn_pc = "done" =>
        LET similarity == fn_ret[1]
        IN  similarity[1] >= similarity[2] =>
                /\ NormTitleOf(fn_args.title1) = NormTitleOf(fn_args.title2)
                /\ NormTitleOf(fn_args.title1) /= <<>>

----------------------------------------------------------------------------
(* Properties of the table of merge_books, checked under Spec *)

\* the two rows have the same canonical ID: the same normalized ISBN-13, or
\* none and the same normalized ASIN, or neither and the same normalized
\* title and author
SameCanonicalId(a, b) ==
    /\ CanonicalTier(a) = CanonicalTier(b)
    /\ CASE CanonicalTier(a) = "isbn13" ->
                normalize_isbn13(a["isbn13"]) = normalize_isbn13(b["isbn13"])
         [] CanonicalTier(a) = "asin" ->
                normalize_asin(a["asin"]) = normalize_asin(b["asin"])
         [] OTHER ->
                /\ NormTitleOf(Get(a, "title")) = NormTitleOf(Get(b, "title"))
                /\ normalize_author(Get(a, "author")) = normalize_author(Get(b, "author"))

\* the rows of the table with the canonical ID of the record
RowsWithCanonicalIdOf(rec, table) ==
    {i \in 1..Len(table) : SameCanonicalId(rec, table[i])}

CanonicalIdsDistinct(table) ==
    \A i \in 1..Len(table) : \A j \in (i + 1)..Len(table) :
        ~SameCanonicalId(table[i], table[j])

\* C26: if the rows of the existing table have pairwise distinct canonical
\* IDs, then so do the rows of the table after every step of the batch; and a
\* step never changes the canonical ID of a row that is in the table already.
C26_CanonicalIdsStayDistinct ==
    /\ [](CanonicalIdsDistinct(existing_books) => CanonicalIdsDistinct(merged))
    /\ [][\A i \in 1..Len(merged) :
            /\ Len(merged') >= Len(merged)
            /\ SameCanonicalId(merged'[i], merged[i])]_mb_vars

\* a finished batch on a table of one row: one record fused into that row,
\* which had cells to take from it, and one appended next to it
C26_Witness ==
    /\ mb_pc = "done" /\ mb_i = 2 /\ mb_run = 1
    /\ Len(existing_books) = 1 /\ Len(merged) = 2
    /\ \E j \in 1..2 : Fused(j) /\ mb_dest[j].idx = 1
    /\ merged[1] /= existing_books[1]
    /\ ~SameCanonicalId(merged[1], merged[2])


\* C27: starting from an empty table and running merge_books on batches of
\* records that carry no work_id, every row of the table has a set work_id
\* and no two rows have the same work_id.
C27_WorkIdIsKey ==
    /\ \A i \in 1..Len(merged) : IsSet(merged[i]["work_id"])
    /\ \A i \in 1..Len(merged) : \A j \in (i + 1)..Len(merged) :
            merged[i]["work_id"] /= merged[j]["work_id"]


\* the ASIN of a row, trimmed and in upper case, None when it is not ten
\* characters long
AsinOf(row) ==
    LET cell == Get(row, "asin")
    IN  IF IsSet(cell) /\ Len(Upper(Strip(cell))) = 10 THEN Upper(Strip(cell)) ELSE None

\* no two rows of the table have the same valid ASIN
AsinsDistinct(table) ==
    \A i \in 1..Len(table) : \A j \in (i + 1)..Len(table) :
        AsinOf(table[i]) = None \/ AsinOf(table[i]) /= AsinOf(table[j])

\* C28: if no two rows of the existing table have the same valid ASIN, then
\* no two rows of the table merge_books returns have: a record with the ASIN
\* of a row is fused into that row, also when one of the two has a valid
\* ISBN-13 as well.
C28_AsinsStayDistinct ==
    (mb_pc = "done" /\ AsinsDistinct(existing_books)) => AsinsDistinct(merged)


\* the formats a row lists, and the flag that goes with each
FormatFlags ==
    {<<StrKindle, "kindle_owned">>, <<StrPhysical, "physical_owned">>,
     <<StrAudiobook, "audiobook_owned">>}

\* every format the row lists has its flag at '1'
FlagsFollowFormats(row) ==
    \A ff \in FormatFlags :
        (IsSet(Get(row, "formats")) /\ Contains(ff[1], Lower(row["formats"])))
            => Get(row, ff[2]) = <<"1">>

\* C29: when every row of the existing table has the flags of the formats it
\* lists, so has every row of the table merge_books returns: a row whose
\* formats contains 'kindle', 'physical' or 'audiobook' has kindle_owned,
\* physical_owned or audiobook_owned equal to '1', also when its formats grew
\* by a fusion.
C29_FlagsStayConsistent ==
    (mb_pc = "done" /\ \A i \in 1..Len(existing_books) : FlagsFollowFormats(existing_books[i]))
        => \A i \in 1..Len(merged) : FlagsFollowFormats(merged[i])


\* the record has no valid ISBN-13, no valid ASIN, no title and no author
HasNoIdentity(row) ==
    /\ normalize_isbn13(Get(row, "isbn13")) = None
    /\ AsinOf(row) = None
    /\ NormTitleOf(Get(row, "title")) = <<>>
    /\ ~IsSet(Get(row, "author")) \/ normalize_author(row["author"]) = <<>>

\* C30: a record with no valid ISBN-13, no valid ASIN, no title and no author
\* is not matched with another such record: merge_books never fuses it into
\* a row, it appends it as a row of its own.
C30_NoIdentityNeverFused ==
    \A j \in 1..Len(mb_dest) :
        HasNoIdentity(normalize_row(new_books[j])) => Appended(j)

====
